---- MODULE Spec2Model ----
(***************************************************************************)
(* A model of smart_ptr::linked_ptr<T> (linked_ptr.hpp): handles that      *)
(* share an object are the members of one circular doubly-linked ring.     *)
(* Handles are storage slots 1..NumHandles; objects are addresses          *)
(* 1..NumObjects; the null pointer is 0.                                   *)
(***************************************************************************)
EXTENDS Integers, FiniteSets, Sequences, TLC

\* ------------------------------------------------------------------ bounds
NumHandles == 4
NumObjects == 2

Null == 0
Handle == 1..NumHandles
Object == 1..NumObjects
Ptr == Object \cup {Null}

VARIABLES
    next,     \* next[h]: super_linked_ptr::next of the handle in slot h
    prev,     \* prev[h]: super_linked_ptr::prev
    data,     \* data[h]: linked_ptr::data
    live,     \* the slots that hold a constructed, not yet destroyed handle
    freed,    \* freed[o]: how many times `delete` ran on object o
    adopted,  \* the objects that were handed to a handle (new T / raw pointer)
    last,     \* the operation that produced this state, and the shape it met
    race      \* two copy constructors running at once: where each one is

vars == <<next, prev, data, live, freed, adopted, last, race>>

\* The program state as one value, so that the member functions are operators
\* from state to state and compose as the statements of the code do.
Cur == [next |-> next, prev |-> prev, data |-> data, live |-> live,
        freed |-> freed, adopted |-> adopted]

\* ------------------------------------------------------ super_linked_ptr
\* super_linked_ptr() : next(this), prev(this) {}
super_ctor(s, this) ==
    [s EXCEPT !.next[this] = this, !.prev[this] = this]

insert_before(s, this, other) ==
    LET s1 == [s  EXCEPT !.next[s.prev[other]] = this]
        s2 == [s1 EXCEPT !.prev[this] = s1.prev[other]]
        s3 == [s2 EXCEPT !.next[this] = other]
    IN  [s3 EXCEPT !.prev[other] = this]

\* void insert(const super_linked_ptr &other) const: insert this after other
insert(s, this, other) ==
    LET s1 == [s  EXCEPT !.prev[s.next[other]] = this]
        s2 == [s1 EXCEPT !.next[this] = s1.next[other]]
        s3 == [s2 EXCEPT !.prev[this] = other]
    IN  [s3 EXCEPT !.next[other] = this]

remove_keeps_prev_link(s, this) ==
    LET s1 == [s EXCEPT !.prev[s.next[this]] = s.prev[this]]
    IN  [s1 EXCEPT !.next[this] = this, !.prev[this] = this]

\* void remove()
remove(s, this) ==
    LET s1 == [s  EXCEPT !.prev[s.next[this]] = s.prev[this]]
        s2 == [s1 EXCEPT !.next[s1.prev[this]] = s1.next[this]]
    IN  [s2 EXCEPT !.next[this] = this, !.prev[this] = this]

\* ------------------------------------------------------------- linked_ptr
\* bool is_unique() const
is_unique(s, this) ==
    s.next[this] = this /\ s.prev[this] = this

unique_ignores_ring(s, this) ==
    s.data[this] # Null

\* bool unique() const
unique(s, this) ==
    s.next[this] = this /\ s.prev[this] = this /\ s.data[this] # Null

delete_always(s, this) ==
    IF s.data[this] # Null
    THEN [s EXCEPT !.freed[s.data[this]] = @ + 1, !.data[this] = Null]
    ELSE s

\* void delete_if_unique()
delete_if_unique(s, this) ==
    IF unique(s, this)
    THEN [s EXCEPT !.freed[s.data[this]] = @ + 1, !.data[this] = Null]
    ELSE s

dtor_deletes_shared(s, this) ==
    remove(delete_always(s, this), this)

\* ~linked_ptr()
dtor(s, this) ==
    remove(delete_if_unique(s, this), this)

\* explicit linked_ptr(T *ptr = nullptr), and the same from a U*
ctor(s, this, ptr) ==
    [super_ctor(s, this) EXCEPT !.data[this] = ptr]

copy_ctor_no_insert(s, this, other) ==
    [super_ctor(s, this) EXCEPT !.data[this] = s.data[other]]

\* linked_ptr(const linked_ptr<T> &other)
copy_ctor(s, this, other) ==
    insert([super_ctor(s, this) EXCEPT !.data[this] = s.data[other]], this, other)

\* template<U> linked_ptr(const linked_ptr<U> &other)
conv_copy_ctor(s, this, other) ==
    LET s1 == super_ctor(s, this)
        s2 == [s1 EXCEPT !.data[this] = s1.data[other]]
    IN  insert(s2, this, other)

move_ctor_no_remove(s, this, other) ==
    LET s1 == insert(super_ctor(s, this), this, other)
        s2 == [s1 EXCEPT !.data[this] = s1.data[other]]
    IN  [s2 EXCEPT !.data[other] = Null]

\* linked_ptr(linked_ptr<T> &&other) noexcept
move_ctor(s, this, other) ==
    LET s1 == insert(super_ctor(s, this), this, other)
        s2 == [s1 EXCEPT !.data[this] = s1.data[other]]
        s3 == remove(s2, other)
    IN  [s3 EXCEPT !.data[other] = Null]

copy_assign_no_guard(s, this, other) ==
    copy_ctor(dtor(s, this), this, other)

copy_assign_no_dtor(s, this, other) ==
    IF other # this
    THEN copy_ctor(s, this, other)
    ELSE s

\* linked_ptr<T>& operator=(const linked_ptr<T>& other)
copy_assign(s, this, other) ==
    IF other # this
    THEN copy_ctor(dtor(s, this), this, other)
    ELSE s

move_assign_keeps_source(s, this, other, junk) ==
    LET s1 == dtor(s, this)
        s2 == [s1 EXCEPT !.data[this] = junk]
        s3 == copy_ctor(s2, this, other)
    IN  remove(s3, other)

move_assign_no_dtor(s, this, other, junk) ==
    LET s2 == [s EXCEPT !.data[this] = IF this = other THEN junk ELSE @]
        s3 == copy_ctor(s2, this, other)
        s4 == remove(s3, other)
    IN  [s4 EXCEPT !.data[other] = Null]

\* linked_ptr<T>& operator=(linked_ptr<T>&& other) noexcept.  `other` is an
\* lvalue inside the body, so new (this) linked_ptr(other) is the copy
\* constructor.  When other is *this the copy constructor initialises data
\* from the data of the object under construction, an indeterminate value:
\* junk is that value (it only matters when this = other).
move_assign(s, this, other, junk) ==
    LET s1 == dtor(s, this)
        s2 == [s1 EXCEPT !.data[this] = junk]
        s3 == copy_ctor(s2, this, other)
        s4 == remove(s3, other)
    IN  [s4 EXCEPT !.data[other] = Null]

conv_assign_skips_same_data(s, this, other) ==
    IF s.data[this] # s.data[other]
    THEN conv_copy_ctor(dtor(s, this), this, other)
    ELSE s

\* template<U> linked_ptr<T>& operator=(linked_ptr<U> const &other)
conv_assign(s, this, other) ==
    IF s.next[this] # s.next[other] /\ s.prev[this] # s.prev[other]
    THEN conv_copy_ctor(dtor(s, this), this, other)
    ELSE s

reset_no_delete(s, this, ptr) ==
    [remove(s, this) EXCEPT !.data[this] = ptr]

reset_no_remove(s, this, ptr) ==
    [delete_if_unique(s, this) EXCEPT !.data[this] = ptr]

\* void reset(T* ptr = nullptr)
reset(s, this, ptr) ==
    [remove(delete_if_unique(s, this), this) EXCEPT !.data[this] = ptr]

\* using std::swap; swap(x, y) on two lvalues, each a field f of a handle h
swap_lv(s, f1, h1, f2, h2) ==
    LET tmp == s[f1][h1]
        s1  == [s  EXCEPT ![f1][h1] = s[f2][h2]]
    IN  [s1 EXCEPT ![f2][h2] = tmp]

RECURSIVE swap(_, _, _)

swap_no_prev_swap(s, this, other) ==
    IF s.data[other] = s.data[this] THEN s
    ELSE LET d == swap_lv(s, "data", this, "data", other) IN
         IF is_unique(d, this)
         THEN IF is_unique(d, other) THEN d
              ELSE LET s1 == [d  EXCEPT !.prev[d.next[other]] = this]
                       s2 == [s1 EXCEPT !.next[this] = s1.next[other]]
                       s3 == [s2 EXCEPT !.next[other] = this]
                       s4 == [s3 EXCEPT !.prev[this] = other]
                   IN  remove(s4, other)
         ELSE IF is_unique(d, other)
         THEN swap(swap_lv(d, "data", this, "data", other), other, this)
         ELSE LET s1 == swap_lv(d,  "prev", d.next[other],  "prev", d.next[this])
                  s2 == swap_lv(s1, "next", s1.prev[other], "next", s1.prev[this])
              IN  swap_lv(s2, "next", other, "next", this)

swap_no_back_link(s, this, other) ==
    IF s.data[other] = s.data[this] THEN s
    ELSE LET d == swap_lv(s, "data", this, "data", other) IN
         IF is_unique(d, this)
         THEN IF is_unique(d, other) THEN d
              ELSE LET s2 == [d  EXCEPT !.next[this] = d.next[other]]
                       s3 == [s2 EXCEPT !.next[other] = this]
                       s4 == [s3 EXCEPT !.prev[this] = other]
                   IN  remove(s4, other)
         ELSE IF is_unique(d, other)
         THEN swap(swap_lv(d, "data", this, "data", other), other, this)
         ELSE LET s1 == swap_lv(d,  "prev", d.next[other],  "prev", d.next[this])
                  s2 == swap_lv(s1, "next", s1.prev[other], "next", s1.prev[this])
                  s3 == swap_lv(s2, "next", other, "next", this)
              IN  swap_lv(s3, "prev", other, "prev", this)

swap_no_equal_check(s, this, other) ==
    LET d == swap_lv(s, "data", this, "data", other) IN
    IF is_unique(d, this)
    THEN IF is_unique(d, other) THEN d
         ELSE LET s1 == [d  EXCEPT !.prev[d.next[other]] = this]
                  s2 == [s1 EXCEPT !.next[this] = s1.next[other]]
                  s3 == [s2 EXCEPT !.next[other] = this]
                  s4 == [s3 EXCEPT !.prev[this] = other]
              IN  remove(s4, other)
    ELSE IF is_unique(d, other)
    THEN swap(swap_lv(d, "data", this, "data", other), other, this)
    ELSE LET s1 == swap_lv(d,  "prev", d.next[other],  "prev", d.next[this])
             s2 == swap_lv(s1, "next", s1.prev[other], "next", s1.prev[this])
             s3 == swap_lv(s2, "next", other, "next", this)
         IN  swap_lv(s3, "prev", other, "prev", this)

swap_no_swap_back(s, this, other) ==
    IF s.data[other] = s.data[this] THEN s
    ELSE LET d == swap_lv(s, "data", this, "data", other) IN
         IF is_unique(d, this)
         THEN IF is_unique(d, other) THEN d
              ELSE LET s1 == [d  EXCEPT !.prev[d.next[other]] = this]
                       s2 == [s1 EXCEPT !.next[this] = s1.next[other]]
                       s3 == [s2 EXCEPT !.next[other] = this]
                       s4 == [s3 EXCEPT !.prev[this] = other]
                   IN  remove(s4, other)
         ELSE IF is_unique(d, other)
         THEN swap(d, other, this)
         ELSE LET s1 == swap_lv(d,  "prev", d.next[other],  "prev", d.next[this])
                  s2 == swap_lv(s1, "next", s1.prev[other], "next", s1.prev[this])
                  s3 == swap_lv(s2, "next", other, "next", this)
              IN  swap_lv(s3, "prev", other, "prev", this)

\* void swap(linked_ptr<T>& other) noexcept
swap(s, this, other) ==
    IF s.data[other] = s.data[this] THEN s
    ELSE LET d == swap_lv(s, "data", this, "data", other) IN
         IF is_unique(d, this)
         THEN IF is_unique(d, other) THEN d
              ELSE LET s1 == [d  EXCEPT !.prev[d.next[other]] = this]
                       s2 == [s1 EXCEPT !.next[this] = s1.next[other]]
                       s3 == [s2 EXCEPT !.next[other] = this]
                       s4 == [s3 EXCEPT !.prev[this] = other]
                   IN  remove(s4, other)
         ELSE IF is_unique(d, other)
         THEN swap(swap_lv(d, "data", this, "data", other), other, this)
         ELSE LET s1 == swap_lv(d,  "prev", d.next[other],  "prev", d.next[this])
                  s2 == swap_lv(s1, "next", s1.prev[other], "next", s1.prev[this])
                  s3 == swap_lv(s2, "next", other, "next", this)
              IN  swap_lv(s3, "prev", other, "prev", this)

\* ---------------------------------------------------------------- shapes
RECURSIVE Walk(_, _, _, _)
\* the handles met by following next from h, at most n steps
Walk(s, h, acc, n) ==
    IF n = 0 \/ h \in acc THEN acc
    ELSE Walk(s, s.next[h], acc \cup {h}, n - 1)

\* the ring of h: what following next from h reaches
Ring(s, h) == Walk(s, h, {}, NumHandles)

\* the live handles holding pointer p
Holders(s, p) == {h \in s.live : s.data[h] = p}

\* what the operation op met: the ring sizes of its operands (0: none, or a
\* handle under construction) and whether they held the same pointer
Met(op, a, b, p) ==
    [op |-> op, a |-> a, b |-> b, p |-> p,
     ra |-> IF a \in live THEN Cardinality(Ring(Cur, a)) ELSE 0,
     rb |-> IF b \in live THEN Cardinality(Ring(Cur, b)) ELSE 0,
     eq |-> b \in live /\ a \in live /\ data[a] = data[b]]

\* a raw pointer a caller may hand over: null, or an object never adopted.
\* No operation depends on which address an object has (data is only copied
\* and tested for equality), so a new object takes the lowest unused address.
Fresh ==
    {Null} \cup {o \in Object \ adopted : \A q \in Object \ adopted : o <= q}

Adopt(s, p) == [s EXCEPT !.adopted = @ \cup ({p} \ {Null})]

Born(s, h) == [s EXCEPT !.live = @ \cup {h}]

\* the storage of a destroyed handle is released: nothing reads it again
Gone(s, h) == [s EXCEPT !.live = @ \ {h}, !.data[h] = Null]

\* no call is in progress: the record of the last call has been dropped
Idle == [op |-> "none", a |-> 0, b |-> 0, p |-> Null,
         ra |-> 0, rb |-> 0, eq |-> FALSE]

\* one call of a member function: the state it leaves, and the record of it
Commit(s, l) ==
    /\ last = Idle
    /\ \E t \in {s} :
          /\ next' = t.next
          /\ prev' = t.prev
          /\ data' = t.data
          /\ live' = t.live
          /\ freed' = t.freed
          /\ adopted' = t.adopted
    /\ last' = l
    /\ race' = race

\* no copy constructors run concurrently
NoRace == [pc |-> <<0, 0>>, n |-> <<0, 0>>, b |-> 0, mixed |-> FALSE]

\* ---------------------------------------------------------------- actions
Init ==
    /\ next = [h \in Handle |-> h]
    /\ prev = [h \in Handle |-> h]
    /\ data = [h \in Handle |-> Null]
    /\ live = {}
    /\ freed = [o \in Object |-> 0]
    /\ adopted = {}
    /\ last = Idle
    /\ race = NoRace

Construct(h, p) ==
    /\ h \notin live /\ p \in Fresh
    /\ Commit(Born(Adopt(ctor(Cur, h, p), p), h), Met("ctor", h, 0, p))

ConstructFromConvertible(h, p) ==
    /\ h \notin live /\ p \in Fresh
    /\ Commit(Born(Adopt(ctor(Cur, h, p), p), h), Met("ctor_conv", h, 0, p))

\* make_linked<T>(args...): new T, wrapped in a handle built in place
MakeLinked(h, p) ==
    /\ h \notin live /\ p \in Fresh \ {Null}
    /\ Commit(Born(Adopt(ctor(Cur, h, p), p), h), Met("make_linked", h, 0, p))

CopyConstruct(n, b) ==
    /\ n \notin live /\ b \in live
    /\ Commit(Born(copy_ctor(Cur, n, b), n), Met("copy_ctor", n, b, Null))

ConvCopyConstruct(n, b) ==
    /\ n \notin live /\ b \in live
    /\ Commit(Born(conv_copy_ctor(Cur, n, b), n), Met("conv_copy_ctor", n, b, Null))

MoveConstruct(n, b) ==
    /\ n \notin live /\ b \in live
    /\ Commit(Born(move_ctor(Cur, n, b), n), Met("move_ctor", n, b, Null))

CopyAssign(a, b) ==
    /\ a \in live /\ b \in live
    /\ Commit(copy_assign(Cur, a, b), Met("copy_assign", a, b, Null))

MoveAssign(a, b) ==
    /\ a \in live /\ b \in live
    /\ \E junk \in (IF a = b THEN Ptr ELSE {Null}) :
          Commit(move_assign(Cur, a, b, junk), Met("move_assign", a, b, Null))

\* other is a linked_ptr<U>, an object of another type: never *this
ConvAssign(a, b) ==
    /\ a \in live /\ b \in live /\ a # b
    /\ Commit(conv_assign(Cur, a, b), Met("conv_assign", a, b, Null))

Reset(h, p) ==
    /\ h \in live /\ p \in Fresh
    /\ Commit(Adopt(reset(Cur, h, p), p), Met("reset", h, 0, p))

Swap(a, b) ==
    /\ a \in live /\ b \in live
    /\ Commit(swap(Cur, a, b), Met("swap", a, b, Null))

Destroy(h) ==
    /\ h \in live
    /\ Commit(Gone(dtor(Cur, h), h), Met("dtor", h, 0, Null))

\* the caller moves on to its next call
Return ==
    /\ last # Idle
    /\ last' = Idle
    /\ UNCHANGED <<next, prev, data, live, freed, adopted, race>>

Next ==
    \/ last = Idle /\ \E h \in Handle, p \in Ptr : Construct(h, p)
    \/ last = Idle /\ \E h \in Handle, p \in Ptr : ConstructFromConvertible(h, p)
    \/ last = Idle /\ \E h \in Handle, p \in Ptr : MakeLinked(h, p)
    \/ last = Idle /\ \E n \in Handle, b \in Handle : CopyConstruct(n, b)
    \/ last = Idle /\ \E n \in Handle, b \in Handle : ConvCopyConstruct(n, b)
    \/ last = Idle /\ \E n \in Handle, b \in Handle : MoveConstruct(n, b)
    \/ last = Idle /\ \E a \in Handle, b \in Handle : CopyAssign(a, b)
    \/ last = Idle /\ \E a \in Handle, b \in Handle : MoveAssign(a, b)
    \/ last = Idle /\ \E a \in Handle, b \in Handle : ConvAssign(a, b)
    \/ last = Idle /\ \E h \in Handle, p \in Ptr : Reset(h, p)
    \/ last = Idle /\ \E a \in Handle, b \in Handle : Swap(a, b)
    \/ last = Idle /\ \E h \in Handle : Destroy(h)
    \/ Return

Spec == Init /\ [][Next]_vars

TypeOK ==
    /\ next \in [Handle -> Handle]
    /\ prev \in [Handle -> Handle]
    /\ data \in [Handle -> Ptr]
    /\ live \subseteq Handle
    /\ adopted \subseteq Object

\* ------------------------------------------------------------ properties
\* the live handles other than h that hold what h holds
Sharers(s, h) == {g \in s.live \ {h} : s.data[g] = s.data[h]}

\* C1: the live members of one ring hold the same data, and two live handles
\* with the same non-null data are members of one ring.
RingsMatchData ==
    \A a \in live :
        LET ring == Ring(Cur, a)
        IN  \A b \in live :
                /\ b \in ring => data[a] = data[b]
                /\ (data[a] = data[b] /\ data[a] # Null) => b \in ring

\* C1 witness: after a swap, two rings of two handles each over two objects.
RingsMatchDataWitness ==
    /\ last.op = "swap" /\ last.ra = 2 /\ last.rb = 2 /\ ~last.eq
    /\ \E a \in live : \E b \in live :
          /\ data[a] # Null /\ data[b] # Null /\ data[a] # data[b]
          /\ Cardinality(Ring(Cur, a)) = 2 /\ Cardinality(Ring(Cur, b)) = 2
          /\ Cardinality(Holders(Cur, data[a])) = 2

\* the operations that may run delete
FreeingOps == {"dtor", "reset", "copy_assign", "move_assign", "conv_assign"}

NeverFreedTwice ==
    /\ \A o \in Object : freed[o] <= 1
    /\ \A h \in live : data[h] # Null => freed[data[h]] = 0

FreedBySoleOwner ==
    \A o \in Object :
        freed'[o] # freed[o] =>
            /\ last'.op \in FreeingOps
            /\ Holders(Cur, o) = {last'.a}

\* C2: no object is freed more than once, no live handle holds a freed
\* object, and an object is freed only by the destruction, reset or
\* assignment of the one live handle that holds it.
NoDoubleFree == []NeverFreedTwice /\ [][FreedBySoleOwner]_vars

\* C2 witness: an assignment replaced the sole owner's object, which was
\* freed once, while another object is still held.
NoDoubleFreeWitness ==
    /\ last.op \in {"copy_assign", "move_assign", "conv_assign"}
    /\ last.ra = 1 /\ ~last.eq
    /\ \E o \in Object : freed[o] = 1 /\ Holders(Cur, o) = {}
    /\ data[last.a] # Null

\* C3: every adopted object that no live handle holds has been freed
\* exactly once.
NoLeak ==
    \A o \in adopted : Holders(Cur, o) = {} => freed[o] = 1

\* C3 witness: every object was adopted, every handle is destroyed again,
\* and every object has been freed once.
NoLeakWitness ==
    /\ last.op = "dtor"
    /\ live = {}
    /\ adopted = Object
    /\ \A o \in Object : freed[o] = 1

\* C4: unique() is true exactly of a handle with non-null data that no other
\* live handle holds; a handle built from a non-null raw pointer is unique,
\* and after a copy neither the original nor the copy is.
UniqueIffSoleOwner ==
    /\ \A h \in live :
          unique(Cur, h) <=> (data[h] # Null /\ Sharers(Cur, h) = {})
    /\ (last.op \in {"ctor", "ctor_conv", "make_linked"} /\ last.p # Null)
          => unique(Cur, last.a)
    /\ last.op \in {"copy_ctor", "conv_copy_ctor"}
          => ~unique(Cur, last.a) /\ ~unique(Cur, last.b)

\* C4 witness: the first copy of a handle that was unique.
UniqueIffSoleOwnerWitness ==
    /\ last.op = "copy_ctor" /\ last.rb = 1
    /\ data[last.b] # Null
    /\ \E h \in live : unique(Cur, h)

\* C5: next and prev of a live handle are live handles, are inverse to each
\* other, and following next returns to the handle.
RingWellFormed ==
    \A n \in live :
        /\ next[n] \in live /\ prev[n] \in live
        /\ prev[next[n]] = n /\ next[prev[n]] = n
        /\ n \in Ring(Cur, next[n])

\* C5 witness: a handle was removed from a ring of four, which stays a ring
\* of three.
RingWellFormedWitness ==
    /\ last.op \in {"dtor", "reset"} /\ last.ra = 4
    /\ \E n \in live : Cardinality(Ring(Cur, n)) = 3

\* x with the handles a and b exchanged
Transposed(a, b, x) == IF x = a THEN b ELSE IF x = b THEN a ELSE x

\* the step is a call of op
Called(op) == last'.op = op

SwapExchangesStep ==
    LET a == last'.a
        b == last'.b
    IN  (Called("swap") /\ data[a] # data[b]) =>
            /\ data'[a] = data[b] /\ data'[b] = data[a]
            /\ \A h \in live \ {a, b} : data'[h] = data[h]
            /\ Ring(Cur', a) = (Ring(Cur, b) \ {b}) \cup {a}
            /\ Ring(Cur', b) = (Ring(Cur, a) \ {a}) \cup {b}
            /\ \A h \in live :
                  /\ next'[Transposed(a, b, h)] = Transposed(a, b, next[h])
                  /\ prev'[Transposed(a, b, h)] = Transposed(a, b, prev[h])
            /\ freed' = freed /\ live' = live
            /\ (unique(Cur, a) /\ unique(Cur, b))
                  => (unique(Cur', a) /\ unique(Cur', b))

\* C6: a.swap(b) on handles with different data exchanges the data and the
\* ring positions of a and b (a takes b's place, b takes a's), leaves every
\* other handle's data alone and frees nothing; two unique handles stay unique.
SwapExchanges == [][SwapExchangesStep]_vars

\* C6 witness: a swap of two shared handles of different rings has run.
SwapExchangesWitness ==
    /\ last.op = "swap" /\ last.ra >= 2 /\ last.rb >= 2 /\ ~last.eq
    /\ data[last.a] # data[last.b]
    /\ last.b \notin Ring(Cur, last.a)
    /\ ~is_unique(Cur, last.a) /\ ~is_unique(Cur, last.b)

SwapIntoRingStep ==
    LET a == last'.a
        b == last'.b
    IN  (/\ Called("swap") /\ data[a] # data[b]
         /\ is_unique(Cur, a) /\ ~is_unique(Cur, b)) =>
            /\ prev'[a] = prev[b] /\ next'[a] = next[b]
            /\ next'[prev[b]] = a /\ prev'[next[b]] = a
            /\ data'[a] = data[b]
            /\ next'[b] = b /\ prev'[b] = b /\ data'[b] = data[a]
            /\ \A c \in Ring(Cur, b) \ {b} : data'[c] = data[b]

\* C7: swapping a singleton a (holding X) with a shared handle b (holding Y,
\* X # Y) puts a at b's position between b's old neighbours, holding Y, and
\* leaves b a singleton holding X; b's former siblings still hold Y.
SwapIntoRing == [][SwapIntoRingStep]_vars

\* C7 witness: a singleton holding an object was swapped into a ring of three.
SwapIntoRingWitness ==
    /\ last.op = "swap" /\ last.ra = 1 /\ last.rb = 3 /\ ~last.eq
    /\ is_unique(Cur, last.b) /\ data[last.b] # Null
    /\ Cardinality(Ring(Cur, last.a)) = 3

MoveAssignCountUnchangedStep ==
    LET a == last'.a
        b == last'.b
    IN  (Called("move_assign") /\ a # b) =>
            /\ data'[b] = Null
            /\ data'[a] = data[b]
            /\ data[b] # Null =>
                  Cardinality(Holders(Cur', data[b]))
                      = Cardinality(Holders(Cur, data[b]))

\* C8 as stated: after a = std::move(b), b is empty, a holds b's old value
\* and that object has as many live owners as before.
MoveAssignCountUnchanged == [][MoveAssignCountUnchangedStep]_vars

MoveAssignStep ==
    LET a == last'.a
        b == last'.b
    IN  (Called("move_assign") /\ a # b) =>
            /\ data'[b] = Null
            /\ data'[a] = data[b]
            /\ data[b] # Null =>
                  Cardinality(Holders(Cur', data[b]))
                      = Cardinality(Holders(Cur, data[b]))
                            - (IF data[a] = data[b] THEN 1 ELSE 0)

\* C8 amended: after a = std::move(b) on distinct handles, b is empty, a
\* holds b's old value, and that object has as many live owners as before
\* when a did not hold it, one fewer when a and b held the same object.
MoveAssignTransfers == [][MoveAssignStep]_vars

\* C8 witness: a shared handle was move-assigned from a shared handle of
\* another ring, which held an object.
MoveAssignTransfersWitness ==
    /\ last.op = "move_assign" /\ last.a # last.b /\ ~last.eq
    /\ last.ra = 2 /\ last.rb = 2
    /\ data[last.a] # Null /\ data[last.b] = Null
    /\ Cardinality(Holders(Cur, data[last.a])) = 2

MoveConstructStep ==
    LET n == last'.a
        b == last'.b
    IN  Called("move_ctor") =>
            /\ live' = live \cup {n}
            /\ data'[n] = data[b]
            /\ next'[n] = (IF next[b] = b THEN n ELSE next[b])
            /\ prev'[n] = (IF prev[b] = b THEN n ELSE prev[b])
            /\ Ring(Cur', n) = (Ring(Cur, b) \ {b}) \cup {n}
            /\ \A h \in live \ {b} :
                  /\ data'[h] = data[h]
                  /\ next'[h] = Transposed(n, b, next[h])
                  /\ prev'[h] = Transposed(n, b, prev[h])
            /\ data'[b] = Null /\ next'[b] = b /\ prev'[b] = b
            /\ freed' = freed

\* C9: move-construction of n from b gives n b's data and b's place in its
\* ring (same size, other members unchanged), leaves b an empty singleton,
\* and frees nothing.
MoveConstructTakesPlace == [][MoveConstructStep]_vars

\* C9 witness: a handle was move-constructed from a member of a ring of three.
MoveConstructTakesPlaceWitness ==
    /\ last.op = "move_ctor" /\ last.rb = 3
    /\ data[last.a] # Null /\ data[last.b] = Null
    /\ Cardinality(Ring(Cur, last.a)) = 3
    /\ is_unique(Cur, last.b)

SelfCopyAssignStep ==
    (Called("copy_assign") /\ last'.a = last'.b) =>
            UNCHANGED <<next, prev, data, live, freed, adopted>>

\* C10: copy self-assignment a = a changes no handle's data or links and
\* frees nothing.
SelfCopyAssignNoOp == [][SelfCopyAssignStep]_vars

\* C10 witness: a unique handle was copy-assigned to itself.
SelfCopyAssignNoOpWitness ==
    /\ last.op = "copy_assign" /\ last.a = last.b
    /\ unique(Cur, last.a)

SwapEqualDataStep ==
    (Called("swap") /\ data[last'.a] = data[last'.b]) =>
        UNCHANGED <<next, prev, data, live, freed, adopted>>

\* C11: a.swap(b) changes nothing and frees nothing when a and b hold equal
\* data: a.swap(a), two members of one ring, or two null handles of
\* different rings.
SwapEqualDataNoOp == [][SwapEqualDataStep]_vars

\* C11 witness: a null singleton was swapped with a member of a ring of null
\* handles, and is still a singleton.
SwapEqualDataNoOpWitness ==
    /\ last.op = "swap" /\ last.eq /\ last.a # last.b
    /\ last.ra = 1 /\ last.rb >= 2
    /\ data[last.a] = Null
    /\ is_unique(Cur, last.a)

CopyConstructStep ==
    LET n == last'.a
        b == last'.b
    IN  (Called("copy_ctor") \/ Called("conv_copy_ctor")) =>
            /\ live' = live \cup {n}
            /\ data'[n] = data[b]
            /\ next'[b] = n /\ prev'[n] = b
            /\ next'[n] = next[b] /\ prev'[next[b]] = n
            /\ Ring(Cur', b) = Ring(Cur, b) \cup {n}
            /\ Cardinality(Ring(Cur', b)) = Cardinality(Ring(Cur, b)) + 1
            /\ \A h \in live :
                  /\ data'[h] = data[h]
                  /\ h # b => next'[h] = next[h]
                  /\ h # next[b] => prev'[h] = prev[h]
            /\ freed' = freed
            /\ \A d \in {n, b} :
                  LET t == Gone(dtor(Cur', d), d)
                      k == CHOOSE x \in {n, b} : x # d
                  IN  /\ Ring(t, k) = Ring(Cur', b) \ {d}
                      /\ t.freed = freed
                      /\ t.data[k] = data[b]

\* C12: copy-construction (same-type or converting) of n from b gives n b's
\* data, links n immediately after b, grows b's ring by exactly n, keeps
\* every other handle's data and order, and frees nothing; destroying n or b
\* afterwards shrinks that same ring.
CopyConstructJoinsRing == [][CopyConstructStep]_vars

\* C12 witness: a converting copy was made of a member of a ring of two
\* that holds an object.
CopyConstructJoinsRingWitness ==
    /\ last.op = "conv_copy_ctor" /\ last.rb = 2
    /\ data[last.a] # Null
    /\ next[last.b] = last.a
    /\ Cardinality(Ring(Cur, last.a)) = 3

\* freed after ~linked_ptr or reset ran on handle a of state s
FreedAfterRelease(s, a) ==
    IF unique(s, a) THEN [s.freed EXCEPT ![s.data[a]] = @ + 1] ELSE s.freed

CopyAssignStep ==
    LET a == last'.a
        b == last'.b
        rest == Ring(Cur, a) \ {a}
    IN  (Called("copy_assign") /\ a # b) =>
            /\ live' = live
            /\ freed' = FreedAfterRelease(Cur, a)
            /\ \A h \in live \ {a} : data'[h] = data[h]
            /\ \A h \in rest :
                  Ring(Cur', h) = (IF b \in rest THEN rest \cup {a} ELSE rest)
            /\ data'[a] = data[b]
            /\ next'[b] = a /\ prev'[a] = b
            /\ Ring(Cur', a) = Ring(Cur, b) \cup {a}
            /\ b \in Ring(Cur, a) =>
                  (freed' = freed /\ Ring(Cur', a) = Ring(Cur, a))

\* C13: copy-assignment a = b of distinct handles frees a's old object
\* exactly when a was its sole non-null owner, leaves the other members of
\* a's old ring linked with their data, and makes a a member of b's ring
\* immediately after b holding b's data; when a and b were in one ring
\* nothing is freed and the ring keeps its members.
CopyAssignReplaces == [][CopyAssignStep]_vars

\* C13 witness: a sole owner was copy-assigned from a member of another
\* ring; its old object is freed and it now follows the source.
CopyAssignReplacesWitness ==
    /\ last.op = "copy_assign" /\ last.a # last.b /\ ~last.eq
    /\ last.ra = 1 /\ last.rb = 2
    /\ \E o \in Object : freed[o] = 1 /\ Holders(Cur, o) = {}
    /\ data[last.a] # Null
    /\ next[last.b] = last.a
    /\ Cardinality(Ring(Cur, last.a)) = 3

ResetStep ==
    LET h == last'.a
        rest == Ring(Cur, h) \ {h}
    IN  Called("reset") =>
            /\ live' = live
            /\ freed' = FreedAfterRelease(Cur, h)
            /\ \A g \in rest :
                  /\ Ring(Cur', g) = rest
                  /\ data'[g] = data[g]
                  /\ g \in live'
                  /\ data[g] # Null => freed'[data[g]] = 0
            /\ next'[h] = h /\ prev'[h] = h /\ data'[h] = last'.p
            /\ \A g \in live \ Ring(Cur, h) :
                  data'[g] = data[g] /\ next'[g] = next[g] /\ prev'[g] = prev[g]

\* C14: reset(p) frees the object h held exactly when h was its sole
\* non-null owner; h's siblings remain a ring among themselves with their
\* data and their object un-freed; h ends a singleton holding p; no handle
\* outside h's old ring changes.
ResetDetaches == [][ResetStep]_vars

\* C14 witness: a member of a ring of three over an object was reset to a
\* new object.
ResetDetachesWitness ==
    /\ last.op = "reset" /\ last.ra = 3 /\ last.p # Null
    /\ unique(Cur, last.a)
    /\ \E g \in live : Cardinality(Ring(Cur, g)) = 2 /\ data[g] # Null

RECURSIVE DestroyAll(_, _)
\* the states that destroying the handles of S, in any order, can end in
DestroyAll(s, S) ==
    IF S = {} THEN {s}
    ELSE UNION {DestroyAll(Gone(dtor(s, h), h), S \ {h}) : h \in S}

\* C15: from a ring of N >= 2 handles over a non-null object, destroying any
\* N-1 of them in any order frees nothing and leaves exactly one live handle
\* of the ring, which is unique() and still holds the un-freed object.
\* (Every program state occurs between two calls, where last = Idle.)
DestroyAllButOne ==
    last = Idle =>
        \A k \in live :
            LET ring == Ring(Cur, k)
            IN  (data[k] # Null /\ Cardinality(ring) >= 2) =>
                    \A t \in DestroyAll(Cur, ring \ {k}) :
                        /\ t.freed = freed
                        /\ t.live = live \ (ring \ {k})
                        /\ Holders(t, data[k]) = {k}
                        /\ t.data[k] = data[k]
                        /\ unique(t, k)
                        /\ t.freed[data[k]] = 0

\* C15 witness: the last but one member of a ring was destroyed; the one
\* handle left is unique and its object is not freed.
DestroyAllButOneWitness ==
    /\ last.op = "dtor" /\ last.ra = 2
    /\ \E k \in Handle :
          /\ live = {k}
          /\ unique(Cur, k)
          /\ freed[data[k]] = 0
    /\ \A o \in Object : freed[o] = 0

ConvAssignSameRingStep ==
    (Called("conv_assign") /\ last'.b \in Ring(Cur, last'.a)) =>
        UNCHANGED <<next, prev, data, live, freed, adopted>>

\* C16: converting assignment self = other is a no-op when other is already
\* a member of self's ring: no data, no ring link changes, nothing is freed.
ConvAssignSameRingNoOp == [][ConvAssignSameRingStep]_vars

SwapSymmetricStep ==
    Called("swap") =>
        LET t == swap(Cur, last'.b, last'.a)
        IN  /\ next' = t.next
            /\ prev' = t.prev
            /\ data' = t.data
            /\ freed' = t.freed
            /\ live' = t.live

\* C18: a.swap(b) ends in the state b.swap(a) ends in, for any two live
\* handles: all data values and all next/prev links agree; in particular the
\* shared/singleton case ends as the singleton/shared case with the roles
\* reversed.
SwapSymmetric == [][SwapSymmetricStep]_vars

\* C18 witness: a member of a ring of three was swapped with a singleton
\* that holds another object.
SwapSymmetricWitness ==
    /\ last.op = "swap" /\ last.ra = 3 /\ last.rb = 1 /\ ~last.eq
    /\ is_unique(Cur, last.a)
    /\ Cardinality(Ring(Cur, last.b)) = 3
    /\ data[last.a] # Null /\ data[last.b] # Null

LinksDistinct ==
    \A a \in live : \A b \in live \ {a} :
        next[a] # next[b] /\ prev[a] # prev[b]

ConvAssignReplacesStep ==
    LET a == last'.a
        b == last'.b
    IN  Called("conv_assign") =>
            /\ (next[a] # next[b] /\ prev[a] # prev[b])
            /\ LET t == conv_copy_ctor(dtor(Cur, a), a, b)
               IN  /\ next' = t.next
                   /\ prev' = t.prev
                   /\ data' = t.data
                   /\ freed' = t.freed
                   /\ live' = t.live
            /\ next'[b] = a /\ data'[a] = data[b]
            /\ freed' = FreedAfterRelease(Cur, a)
            /\ \A o \in Object : freed'[o] <= 1
            /\ \A h \in live' : data'[h] # Null => freed'[data'[h]] = 0
            /\ \A o \in adopted' :
                  Holders(Cur', o) = {} => freed'[o] = 1

\* C19: distinct live handles never have equal next or equal prev, so the
\* guard of converting assignment is true for every pair of distinct
\* handles: converting assignment always runs the destructor and then the
\* converting copy constructor, in one ring or across rings, and neither
\* frees an object twice nor leaks one.
ConvAssignAlwaysReplaces == []LinksDistinct /\ [][ConvAssignReplacesStep]_vars

\* C19 witness: a converting assignment inside one ring of three moved the
\* target right behind the source.
ConvAssignAlwaysReplacesWitness ==
    /\ last.op = "conv_assign" /\ last.eq /\ last.ra = 3
    /\ data[last.a] # Null
    /\ next[last.b] = last.a
    /\ Cardinality(Ring(Cur, last.a)) = 3

SelfMoveAssignStep ==
    LET a == last'.a
        rest == Ring(Cur, a) \ {a}
    IN  (Called("move_assign") /\ last'.b = a) =>
            /\ live' = live
            /\ data'[a] = Null /\ next'[a] = a /\ prev'[a] = a
            /\ freed' = FreedAfterRelease(Cur, a)
            /\ \A o \in Object : freed'[o] <= 1
            /\ \A h \in live' : data'[h] # Null => freed'[data'[h]] = 0
            /\ \A g \in rest :
                  /\ Ring(Cur', g) = rest
                  /\ next'[g] \in rest /\ prev'[g] \in rest
                  /\ prev'[next'[g]] = g /\ next'[prev'[g]] = g
                  /\ data'[g] = data[g]
                  /\ data[g] # Null => freed'[data[g]] = 0
            /\ \A g \in live \ Ring(Cur, a) :
                  data'[g] = data[g] /\ next'[g] = next[g] /\ prev'[g] = prev[g]

\* C20: self move-assignment a = std::move(a) never frees an object twice
\* and leaves no handle holding a freed object: a ends an empty singleton,
\* its object is freed exactly when a was the sole owner, and a's former
\* siblings remain a valid ring holding the un-freed object.
SelfMoveAssignEmpties == [][SelfMoveAssignStep]_vars

\* C20 witness: a member of a ring of three over an object was move-assigned
\* to itself; the two siblings still share the object.
SelfMoveAssignEmptiesWitness ==
    /\ last.op = "move_assign" /\ last.a = last.b /\ last.ra = 3
    /\ data[last.a] = Null /\ is_unique(Cur, last.a)
    /\ \E g \in live :
          /\ data[g] # Null /\ freed[data[g]] = 0
          /\ Cardinality(Ring(Cur, g)) = 2

\* ------------------------------------- two copy constructions at once
\* Two threads copy-construct from one source handle with no
\* synchronisation.  Each thread runs its statements in program order and
\* each statement is one step; the steps of the two threads interleave.
Thread == {1, 2}

insert_stmt_links_source(s, this, other, i) ==
    CASE i = 1 -> [s EXCEPT !.prev[other] = this]
      [] i = 2 -> [s EXCEPT !.next[this] = s.next[other]]
      [] i = 3 -> [s EXCEPT !.prev[this] = other]
      [] i = 4 -> [s EXCEPT !.next[other] = this]

\* statement i (1..4) of super_linked_ptr::insert
insert_stmt(s, this, other, i) ==
    CASE i = 1 -> [s EXCEPT !.prev[s.next[other]] = this]
      [] i = 2 -> [s EXCEPT !.next[this] = s.next[other]]
      [] i = 3 -> [s EXCEPT !.prev[this] = other]
      [] i = 4 -> [s EXCEPT !.next[other] = this]

Blank == [next |-> [h \in Handle |-> h], prev |-> [h \in Handle |-> h],
          data |-> [h \in Handle |-> Null], live |-> {},
          freed |-> [o \in Object |-> 0], adopted |-> {}]

RECURSIVE SourceRing(_)
\* handle 1 made by make_linked, then handles 2..k copy-constructed from it
SourceRing(k) ==
    IF k = 1
    THEN LET o == CHOOSE x \in Object : \A y \in Object : x <= y
         IN  Born(Adopt(ctor(Blank, k, o), o), k)
    ELSE Born(copy_ctor(SourceRing(k - 1), k, 1), k)

RaceInit ==
    \E k \in 1..(NumHandles - 2) : \E src \in 1..k :
        /\ \E t \in {SourceRing(k)} :
              /\ next = t.next
              /\ prev = t.prev
              /\ data = t.data
              /\ live = t.live
              /\ freed = t.freed
              /\ adopted = t.adopted
        /\ last = Idle
        /\ race = [pc |-> <<0, 0>>, n |-> <<k + 1, k + 2>>, b |-> src,
                   mixed |-> FALSE]

RaceDone == race.pc[1] = 5 /\ race.pc[2] = 5

\* the other thread
Peer(t) == CHOOSE u \in Thread : u # t

RaceCommit(s, t, mixed) ==
    /\ \E r \in {s} :
          /\ next' = r.next
          /\ prev' = r.prev
          /\ data' = r.data
          /\ live' = r.live
          /\ freed' = r.freed
          /\ adopted' = r.adopted
    /\ race' = [race EXCEPT !.pc[t] = @ + 1, !.mixed = mixed]
    /\ last' = last

\* linked_ptr(const linked_ptr<T> &other): super_linked_ptr(), data(other.data)
CopyBegin(t) ==
    /\ race.pc[t] = 0
    /\ RaceCommit([super_ctor(Cur, race.n[t]) EXCEPT
                      !.data[race.n[t]] = data[race.b]], t, race.mixed)

\* one statement of insert(other); after the last one the handle is complete.
\* mixed: a statement ran while the other thread was part-way through insert
CopyInsertStmt(t) ==
    /\ race.pc[t] \in 1..4
    /\ LET s == insert_stmt(Cur, race.n[t], race.b, race.pc[t])
           m == race.mixed \/ race.pc[Peer(t)] \in 2..4
       IN  RaceCommit(IF race.pc[t] = 4 THEN Born(s, race.n[t]) ELSE s, t, m)

RaceNext ==
    \/ \E t \in Thread : CopyBegin(t)
    \/ \E t \in Thread : CopyInsertStmt(t)
    \/ RaceDone /\ last = Idle /\ \E h \in Handle : Destroy(h)
    \/ RaceDone /\ Return

RaceSpec == RaceInit /\ [][RaceNext]_vars

\* the live handles form one well-formed ring
OneRing ==
    /\ RingWellFormed
    /\ \A a \in live : Ring(Cur, a) = live

\* both constructors have returned and no handle was destroyed since
RaceJustDone == RaceDone /\ Cardinality(live) = race.n[2]

\* C17: two unsynchronised copy constructions from one source: when the
\* writes of the two inserts interleave, the source and the two copies do
\* not end as one valid ring, and an object can then be freed while a live
\* handle holds it; when one insert runs wholly before the other they do.
RacyCopyBreaksRing ==
    /\ RaceJustDone => (OneRing <=> ~race.mixed)
    /\ (RaceDone /\ ~race.mixed) => (RingWellFormed /\ NeverFreedTwice)

\* C17 witness: after an interleaved pair of copy constructions and some
\* destructor calls, the object is freed while a live handle still holds it.
RacyCopyBreaksRingWitness ==
    /\ RaceDone /\ race.mixed
    /\ \E h \in live : data[h] # Null /\ freed[data[h]] >= 1

====
